---- MODULE Spec2Model ----
(***************************************************************************)
(* version-checkr: the webhook handler of a GitHub App that compares the   *)
(* "version" of package.json at the base and head of a pull request.       *)
(*                                                                         *)
(* Two revisions of the handler are modelled, chosen by the variable rev:  *)
(*   "status"  src/versioncheckr.js        (Commit Status API, 'github')   *)
(*   "checks"  src/unnamed/part_006:126-329 (Checks API, '@octokit/rest')  *)
(*                                                                         *)
(* Text (version strings, pull-request descriptions) is a sequence of      *)
(* one-character strings.  An HMAC-SHA1 digest is a perfect keyed hash: a  *)
(* digest is identified by the (key, message) pair it was made from and    *)
(* always has HexLen hexadecimal characters.                               *)
(***************************************************************************)
EXTENDS Integers, Sequences, FiniteSets, TLC

(***************************************************************************)
(* Bounds                                                                  *)
(***************************************************************************)
\* version components 0..MaxComponent are enumerated for both manifests
MaxComponent == 1
\* number of entries of a check suite's pull_requests list
MaxPRs == 2

(***************************************************************************)
(* Characters and text                                                     *)
(***************************************************************************)
LowerAlpha == <<"a","b","c","d","e","f","g","h","i","j","k","l","m",
                "n","o","p","q","r","s","t","u","v","w","x","y","z">>
UpperAlpha == <<"A","B","C","D","E","F","G","H","I","J","K","L","M",
                "N","O","P","Q","R","S","T","U","V","W","X","Y","Z">>
DigitChars == <<"0","1","2","3","4","5","6","7","8","9">>

IsLetter(c) == \E k \in 1..26 : LowerAlpha[k] = c \/ UpperAlpha[k] = c
IsDigit(c) == c \in {"0", "1", "2", "3", "4", "5", "6", "7", "8", "9"}
DigitVal(c) == (CHOOSE k \in 1..10 : DigitChars[k] = c) - 1

\* String.prototype.toLowerCase on one character
ToLowerChar(c) ==
  IF \E k \in 1..26 : UpperAlpha[k] = c
    THEN LowerAlpha[CHOOSE k \in 1..26 : UpperAlpha[k] = c]
    ELSE c
toLowerCase(s) == [k \in 1..Len(s) |-> ToLowerChar(s[k])]

\* the characters \s matches and the line terminators ^ follows under /m
Whitespace == {" ", "\t", "\n", "\r"}
LineTerminators == {"\n", "\r"}

\* decimal rendering of a natural number (template-literal / String(n))
RECURSIVE ToDigits(_)
ToDigits(n) ==
  IF n < 10 THEN <<DigitChars[n + 1]>>
  ELSE ToDigits(n \div 10) \o <<DigitChars[(n % 10) + 1]>>

RECURSIVE ParseNat(_)
ParseNat(s) ==
  IF Len(s) = 0 THEN 0
  ELSE 10 * ParseNat(SubSeq(s, 1, Len(s) - 1)) + DigitVal(s[Len(s)])

\* s.split(sep) for a one-character separator: the pieces of s from
\* position i on, cur being the piece under construction
RECURSIVE SplitFrom(_, _, _, _)
SplitFrom(s, sep, i, cur) ==
  IF i > Len(s) THEN <<cur>>
  ELSE IF s[i] = sep THEN <<cur>> \o SplitFrom(s, sep, i + 1, <<>>)
  ELSE SplitFrom(s, sep, i + 1, Append(cur, s[i]))

Split(s, sep) == SplitFrom(s, sep, 1, <<>>)

(***************************************************************************)
(* semver (the library calls of compareVersionsFromGitHub)                 *)
(***************************************************************************)
\* the value of a missing "version" field
Undefined == <<"undefined">>
\* what semver.inc returns for a version it cannot parse
Null == <<"null">>

\* the release types and the skip keyword, as text
Major == <<"m","a","j","o","r">>
Minor == <<"m","i","n","o","r">>
Patch == <<"p","a","t","c","h">>
Skip == <<"s","k","i","p">>

\* a numeric identifier: 0|[1-9]\d*
IsNumericId(c) ==
  /\ Len(c) > 0
  /\ \A k \in 1..Len(c) : IsDigit(c[k])
  /\ (Len(c) > 1 => c[1] # "0")

\* new SemVer(v): the three integer components, or invalid (it throws)
SemVer(v) ==
  LET parts == Split(v, ".")
  IN IF /\ v # Undefined
        /\ v # Null
        /\ Len(parts) = 3
        /\ \A k \in 1..3 : IsNumericId(parts[k])
       THEN [valid |-> TRUE, major |-> ParseNat(parts[1]),
             minor |-> ParseNat(parts[2]), patch |-> ParseNat(parts[3])]
       ELSE [valid |-> FALSE, major |-> 0, minor |-> 0, patch |-> 0]

\* SemVer.prototype.format
Format(major, minor, patch) ==
  ToDigits(major) \o <<".">> \o ToDigits(minor) \o <<".">> \o ToDigits(patch)

\* semver.inc(version, release): null when the version is invalid
semverIncMinorKeepsPatch(version, release) ==
  LET v == SemVer(version)
  IN IF ~v.valid THEN Null
     ELSE IF release = Major THEN Format(v.major + 1, 0, 0)
     ELSE IF release = Minor THEN Format(v.major, v.minor + 1, v.patch)
     ELSE IF release = Patch THEN Format(v.major, v.minor, v.patch + 1)
     ELSE Null

semverInc(version, release) ==
  LET v == SemVer(version)
  IN IF ~v.valid THEN Null
     ELSE IF release = Major THEN Format(v.major + 1, 0, 0)
     ELSE IF release = Minor THEN Format(v.major, v.minor + 1, 0)
     ELSE IF release = Patch THEN Format(v.major, v.minor, v.patch + 1)
     ELSE Null

\* SemVer.prototype.compare: -1, 0, 1
semverCompare(a, b) ==
  IF a.major # b.major THEN (IF a.major < b.major THEN -1 ELSE 1)
  ELSE IF a.minor # b.minor THEN (IF a.minor < b.minor THEN -1 ELSE 1)
  ELSE IF a.patch # b.patch THEN (IF a.patch < b.patch THEN -1 ELSE 1)
  ELSE 0

semverGteThrowsOnNull(a, b) == b = Null

\* semver.gte(a, b) throws TypeError when either version is invalid
semverGteThrows(a, b) == ~SemVer(a).valid \/ ~SemVer(b).valid
semverGte(a, b) == semverCompare(SemVer(a), SemVer(b)) >= 0

(***************************************************************************)
(* The directive regular expressions                                       *)
(*   status: /^#version[- ]?checke?r:\s?([a-z]+)/im                        *)
(*   checks: /^#version[- ]?checke?r:\s?(major|minor|patch)/im             *)
(***************************************************************************)
NoMatch == <<"no match">>

LitAtCaseSensitive(text, p, lit) ==
  /\ p + Len(lit) - 1 <= Len(text)
  /\ \A k \in 1..Len(lit) : text[p + k - 1] = lit[k]

\* the literal lit occurs in text at position p, ignoring case (flag i)
LitAt(text, p, lit) ==
  /\ p + Len(lit) - 1 <= Len(text)
  /\ \A k \in 1..Len(lit) : ToLowerChar(text[p + k - 1]) = lit[k]

\* position after an optional character of set at p (greedy; what follows
\* in the expression never matches a character of set, so the choice is
\* forced)
Opt(text, p, set) == IF p <= Len(text) /\ text[p] \in set THEN p + 1 ELSE p

AtLineStartUnanchored(text, p) == p >= 1

\* ^ under flag m: the start of the text or just after a line terminator
AtLineStart(text, p) == p = 1 \/ (p > 1 /\ text[p - 1] \in LineTerminators)

\* position after the marker '#version[- ]?checke?r:\s?' started at p, or 0
MarkerEnd(text, p) ==
  IF ~LitAt(text, p, <<"#","v","e","r","s","i","o","n">>) THEN 0
  ELSE LET p1 == Opt(text, p + 8, {"-", " "})
       IN IF ~LitAt(text, p1, <<"c","h","e","c","k">>) THEN 0
          ELSE LET p2 == Opt(text, p1 + 5, {"e", "E"})
                   \* 'e?' is given back when no 'r' follows it
                   p3 == IF LitAt(text, p2, <<"r">>) THEN p2 + 1
                         ELSE IF LitAt(text, p1 + 5, <<"r">>) THEN p1 + 6
                         ELSE 0
               IN IF p3 = 0 \/ ~LitAt(text, p3, <<":">>) THEN 0
                  ELSE Opt(text, p3 + 1, Whitespace)

\* ([a-z]+) at p: the longest run of letters, NoMatch when there is none
RECURSIVE LetterRun(_, _)
LetterRun(text, p) ==
  IF p <= Len(text) /\ IsLetter(text[p])
    THEN <<text[p]>> \o LetterRun(text, p + 1)
    ELSE <<>>

\* group 1 of the status expression matched at p (anchored), or NoMatch
StatusMatchAt(text, p) ==
  LET q == IF AtLineStart(text, p) THEN MarkerEnd(text, p) ELSE 0
  IN IF q = 0 \/ LetterRun(text, q) = <<>> THEN NoMatch
     ELSE LetterRun(text, q)

\* group 1 of the checks expression matched at p (anchored), or NoMatch
ChecksMatchAt(text, p) ==
  LET q == IF AtLineStart(text, p) THEN MarkerEnd(text, p) ELSE 0
  IN IF q = 0 THEN NoMatch
     ELSE IF LitAt(text, q, Major) THEN SubSeq(text, q, q + 4)
     ELSE IF LitAt(text, q, Minor) THEN SubSeq(text, q, q + 4)
     ELSE IF LitAt(text, q, Patch) THEN SubSeq(text, q, q + 4)
     ELSE NoMatch

\* RegExp.prototype.exec: group 1 of the leftmost match, or NoMatch (null)
StatusExec(text) ==
  LET hits == {p \in 1..Len(text) : StatusMatchAt(text, p) # NoMatch}
  IN IF hits = {} THEN NoMatch
     ELSE StatusMatchAt(text, CHOOSE p \in hits : \A r \in hits : p <= r)

ChecksExec(text) ==
  LET hits == {p \in 1..Len(text) : ChecksMatchAt(text, p) # NoMatch}
  IN IF hits = {} THEN NoMatch
     ELSE ChecksMatchAt(text, CHOOSE p \in hits : \A r \in hits : p <= r)

\* a pull request body that is null (no description)
NoBody == <<"null">>
\* a payload field that is not there at all
IsFalsy(body) == body = NoBody \/ body = Undefined \/ body = <<>>

\* versioncheckr.js:139-148: let checking = 'patch'; if (body) {...}
checkingOf(body) ==
  IF IsFalsy(body) THEN Patch
  ELSE LET match == StatusExec(body)
       IN IF match = NoMatch THEN Patch
          ELSE LET matchAction == toLowerCase(match)
               IN IF matchAction \in {Skip, Major, Minor, Patch}
                    THEN matchAction
                    ELSE Patch

\* part_006:203-209: let releaseType = 'patch'; if (body) {...}
releaseTypeOf(body) ==
  IF IsFalsy(body) THEN Patch
  ELSE LET match == ChecksExec(body)
       IN IF match = NoMatch THEN Patch ELSE toLowerCase(match)

(***************************************************************************)
(* Inputs: manifests, payloads, envelopes                                  *)
(***************************************************************************)
V(major, minor, patch) == Format(major, minor, patch)

WellFormedVersions ==
  {V(a, b, c) : a \in 0..MaxComponent, b \in 0..MaxComponent,
                c \in 0..MaxComponent}
    \cup {V(9, 9, 99), V(10, 0, 0)}

MalformedVersions ==
  {Undefined, <<"1", ".", "0">>, <<"0", "1", ".", "0", ".", "0">>,
   <<"1", ".", "x", ".", "0">>}

\* the text of package.json as the repository serves it
VersionKey == <<"\"", "v", "e", "r", "s", "i", "o", "n", "\"">>
\* the same key with its first letter written as a JSON escape
EscapedKey ==
  <<"\"", "\\", "u", "0", "0", "7", "6", "e", "r", "s", "i", "o", "n", "\"">>
NameKey == <<"\"", "n", "a", "m", "e", "\"">>
Member(key, value) == key \o <<":">> \o value
Quoted(v) == <<"\"">> \o v \o <<"\"">>
OneLine(member) == <<"{">> \o member \o <<"}">>
TwoLines(first, second) == <<"{">> \o first \o <<"\n">> \o second \o <<"}">>

\* the decoded content of package.json at one revision: text is the content,
\* json says whether JSON.parse accepts it, version is the "version" member
\* of the parsed object
Manifest(text, version) == [json |-> TRUE, version |-> version, text |-> text]

Manifests ==
  {Manifest(TwoLines(<<>>, Member(VersionKey, Quoted(v))), v)
     : v \in WellFormedVersions \cup (MalformedVersions \ {Undefined})}
    \cup {Manifest(OneLine(Member(VersionKey, Quoted(V(1, 0, 0)))), V(1, 0, 0)),
          Manifest(TwoLines(<<>>, Member(EscapedKey, Quoted(V(1, 0, 0)))),
                   V(1, 0, 0)),
          Manifest(TwoLines(Member(NameKey, VersionKey) \o <<",">>,
                            Member(VersionKey, Quoted(V(1, 0, 0)))), V(1, 0, 0)),
          Manifest(OneLine(<<>>), Undefined),
          [json |-> FALSE, version |-> Undefined, text |-> <<"<", "!", ">">>]}

NoManifest == [json |-> FALSE, version |-> Undefined, text |-> <<>>]

\* revisions named by the payloads
HeadSha == <<"headSha", 0>>
BaseSha == <<"baseSha", 0>>
BaseRef(k) == <<"baseRef", k>>
NoRef == <<"undefined", 0>>

\* pull request descriptions
DirectiveLine(keyword) ==
  <<"#","v","e","r","s","i","o","n","-","c","h","e","c","k","r",":"," ">>
    \o keyword
\* the descriptions of the handled events; the spellings and placements of
\* the directive are those of PolicyTexts
Descriptions ==
  {NoBody, <<>>,
   DirectiveLine(Major), DirectiveLine(Minor), DirectiveLine(Skip)}

Actions ==
  {"opened", "reopened", "synchronize", "edited", "closed",
   "requested", "rerequested", "completed"}

\* check_suite.pull_requests: entry k names base ref k and number k
pull_requests(len) == [k \in 1..len |-> [baseRef |-> BaseRef(k), number |-> k]]

\* the parsed request body.  kind is the object the payload carries
\* (pull_request, check_suite, check_run, or none of them)
Payload(kind, action, prBody, prs) ==
  [json |-> TRUE, kind |-> kind, action |-> action, prBody |-> prBody,
   prs |-> prs]

NotJson == [json |-> FALSE, kind |-> "none", action |-> "undefined",
            prBody |-> Undefined, prs |-> <<>>]
FooBar == Payload("none", "undefined", Undefined, <<>>)

Bodies ==
  {NotJson, FooBar}
    \cup {Payload("pull_request", a, d, <<>>) : a \in Actions, d \in Descriptions}
    \cup {Payload(k, a, Undefined, pull_requests(len)) :
            k \in {"check_suite", "check_run"}, a \in Actions, len \in 0..MaxPRs}

GitHubEvents == {"", "pull_request", "check_suite", "check_run", "release"}

\* process.env.WEBHOOK_SECRET and a key that is not the secret
WEBHOOK_SECRET == "password"
OtherSecret == "not_the_secret"

\* hex characters of an HMAC-SHA1 digest
HexLen == 40

\* crypto.createHmac('sha1', key).update(msg).digest('hex')
Hmac(key, msg) == [key |-> key, msg |-> msg]

PrefixLen(prefix) ==
  IF prefix = "sha1=" \/ prefix = "SHA1=" THEN 5
  ELSE IF prefix = "sha256=" THEN 7
  ELSE 0

\* a header value: prefix followed by the first hex characters of a digest
SigValue(prefix, digest, hex) ==
  [present |-> TRUE, prefix |-> prefix, digest |-> digest, hex |-> hex]
NoSig == [present |-> FALSE, prefix |-> "", digest |-> Hmac("", NotJson), hex |-> 0]

\* Buffer.from(value, 'utf8').length
byteLength(value) == PrefixLen(value.prefix) + value.hex

\* X-Hub-Signature values offered with a body
SigHeaders(body) ==
  {NoSig,
   SigValue("sha1=", Hmac(WEBHOOK_SECRET, body), HexLen),
   SigValue("sha1=", Hmac(OtherSecret, body), HexLen),
   SigValue("sha1=", Hmac(WEBHOOK_SECRET, IF body = FooBar THEN NotJson ELSE FooBar), HexLen),
   SigValue("SHA1=", Hmac(WEBHOOK_SECRET, body), HexLen),
   SigValue("", Hmac(WEBHOOK_SECRET, body), HexLen),
   SigValue("sha1=", Hmac(WEBHOOK_SECRET, body), HexLen - 1),
   SigValue("sha256=", Hmac(WEBHOOK_SECRET, body), 64)}

\* the envelopes delivered to the handler: headers and body
\* lowerCase: the header names are written 'x-github-event' and
\* 'x-hub-signature' instead of 'X-GitHub-Event' and 'X-Hub-Signature'
EnvelopesOf(b) ==
  {[ghEvent |-> g, sig |-> x, body |-> b, lowerCase |-> FALSE] :
     g \in GitHubEvents, x \in SigHeaders(b)}
Envelopes == UNION {EnvelopesOf(b) : b \in Bodies}

\* the same envelopes with either spelling of the header names
EnvelopesAnyCase ==
  Envelopes \cup {[e EXCEPT !.lowerCase = TRUE] : e \in Envelopes}

NoEvent == [ghEvent |-> "", sig |-> NoSig, body |-> NotJson, lowerCase |-> FALSE]

\* event.headers['X-GitHub-Event'] and event.headers['X-Hub-Signature']: the
\* values of the properties of exactly these names, undefined when the
\* object has the names in another case
headers(e) ==
  IF e.lowerCase THEN [e EXCEPT !.ghEvent = "", !.sig = NoSig] ELSE e

(***************************************************************************)
(* validateSignature                                                       *)
(***************************************************************************)
\* `sha1=${hmac.update(body).digest('hex')}`
bodySig(body) == SigValue("sha1=", Hmac(WEBHOOK_SECRET, body), HexLen)

\* crypto.timingSafeEqual throws when the buffers differ in length
validateSignatureThrows(body, xHubSignature) ==
  byteLength(bodySig(body)) # byteLength(xHubSignature)

validateSignaturePrefixOnly(body, xHubSignature) ==
  bodySig(body).prefix = xHubSignature.prefix

validateSignature(body, xHubSignature) == bodySig(body) = xHubSignature

(***************************************************************************)
(* State                                                                   *)
(***************************************************************************)
VARIABLES
  rev,         \* the deployed handler revision: "status" or "checks"
  privateKey,  \* the module-level promise of the S3 key: "resolved"/"rejected"
  pc,          \* position of the current invocation
  event,       \* the envelope of the current invocation
  locals,      \* the handler's local variables
  files,       \* the fetched manifests
  res,         \* the comparison result handed to the reporting step
  calls,       \* the external collaborator calls of this invocation, in order
  callbacks    \* the invocations of the Lambda callback, in order

vars == <<rev, privateKey, pc, event, locals, files, res, calls, callbacks>>

\* params: the ref of each getContent parameters object the invocation has
\* created, in the order of creation
NoLocals == [checking |-> Patch, headSha |-> NoRef, baseRef |-> NoRef,
             number |-> 0, body |-> Undefined, params |-> <<>>]
\* baseAt, headAt: the revision each manifest was read at
NoFiles == [base |-> NoManifest, head |-> NoManifest,
            baseAt |-> NoRef, headAt |-> NoRef]
NoRes == [state |-> "undefined", success |-> "undefined",
          description |-> Undefined, lineNumber |-> 0]

\* createResponse(statusCode, msg)
createResponse(statusCode, msg) ==
  [err |-> FALSE, statusCode |-> statusCode, body |-> msg]
\* callback(err)
errorResult == [err |-> TRUE, statusCode |-> 0, body |-> Undefined]

\* one external call as the collaborator sees it
\* params: the parameters object handed over, as its number in
\* locals.params (0: an object of its own that nothing else refers to)
Call(api, ref, state, description, line) ==
  [api |-> api, ref |-> ref, state |-> state, description |-> description,
   line |-> line, rejected |-> FALSE, params |-> 0]
\* the call made with the parameters object number n
With(call, n) == [call EXCEPT !.params = n]
\* the refs the collaborator can send for a call: it is handed a reference
\* to the parameters object and reads ref when it is called or when it
\* forms the request, by which time the caller may have assigned it anew
RefsRead(call, objects) ==
  {call.ref} \cup (IF call.params = 0 THEN {} ELSE {objects[call.params]})
\* the same call when the promise it returns is rejected
Rejected(call) == [call EXCEPT !.rejected = TRUE]

MsgMissingEvent == <<"Missing X-GitHub-Event">>
MsgMissingSig == <<"Missing X-Hub-Signature">>
MsgInvalidSig == <<"Invalid X-Hub-Signature">>
MsgNoAction == <<"No action to take">>
MsgSkipped == <<"Skipped the version check">>
MsgNoPR == <<"Commit is not part of a pull request, so version was not checked">>

Init ==
  /\ rev \in {"status", "checks"}
  /\ privateKey \in {"resolved", "rejected"}
  /\ pc = "idle"
  /\ event = NoEvent
  /\ locals = NoLocals
  /\ files = NoFiles
  /\ res = NoRes
  /\ calls = <<>>
  /\ callbacks = <<>>

\* the handler returns after callback(null, response)
AnswerAfterAuthenticating(e, statusCode, msg) ==
  /\ pc' = "done"
  /\ event' = e
  /\ callbacks' = Append(callbacks, createResponse(statusCode, msg))
  /\ calls' = Append(calls, Call("createInstallationToken", NoRef, "", Undefined, 0))
  /\ UNCHANGED <<rev, privateKey, locals, files, res>>

Answer(e, statusCode, msg) ==
  /\ pc' = "done"
  /\ event' = e
  /\ callbacks' = Append(callbacks, createResponse(statusCode, msg))
  /\ UNCHANGED <<rev, privateKey, locals, files, res, calls>>

\* the positions of an invocation that ended by an exception thrown out of
\* the handler, named by what threw
Thrown == {"thrown:timingSafeEqual", "thrown:JSON.parse", "thrown:TypeError"}

\* the handler throws before any callback
Throw(e, site) ==
  /\ pc' = site
  /\ event' = e
  /\ UNCHANGED <<rev, privateKey, locals, files, res, calls, callbacks>>

\* the synchronous part is over, the promise chain starts
Proceed(e, l) ==
  /\ pc' = "authenticate"
  /\ event' = e
  /\ locals' = l
  /\ UNCHANGED <<rev, privateKey, files, res, calls, callbacks>>

(***************************************************************************)
(* src/versioncheckr.js                                                    *)
(***************************************************************************)
\* lines 112-120: the first missing header, in the order the handler looks
HeadersPresent == <<"ok">>
headerCheckSignatureFirst(e) ==
  IF ~e.sig.present THEN MsgMissingSig
  ELSE IF e.ghEvent = "" THEN MsgMissingEvent
  ELSE HeadersPresent

headerCheck(e) ==
  IF e.ghEvent = "" THEN MsgMissingEvent
  ELSE IF ~e.sig.present THEN MsgMissingSig
  ELSE HeadersPresent

\* lines 127-128: the events the status revision processes
isActionableWithoutEdited(githubEvent, action) ==
  githubEvent = "pull_request" /\ action \in {"opened", "reopened", "synchronize"}

isActionable(githubEvent, action) ==
  /\ githubEvent = "pull_request"
  /\ action \in {"opened", "reopened", "synchronize", "edited"}

\* handler, lines 110-151: header checks, signature, classification, policy
handlerOn(envelopes) ==
  /\ rev = "status"
  /\ pc = "idle"
  /\ \E e \in envelopes :
     LET h == headers(e) IN
     IF headerCheck(h) # HeadersPresent THEN Answer(e, 400, headerCheck(h))
     ELSE IF validateSignatureThrows(e.body, h.sig)
       THEN Throw(e, "thrown:timingSafeEqual")
     ELSE IF ~validateSignature(e.body, h.sig) THEN Answer(e, 400, MsgInvalidSig)
     ELSE IF ~e.body.json THEN Throw(e, "thrown:JSON.parse")
     ELSE IF ~isActionable(h.ghEvent, e.body.action)
       THEN Answer(e, 202, MsgNoAction)
     ELSE IF e.body.kind # "pull_request" THEN Throw(e, "thrown:TypeError")
     ELSE Proceed(e, [NoLocals EXCEPT !.headSha = HeadSha, !.baseRef = BaseSha,
                                      !.body = e.body.prBody,
                                      !.checking = checkingOf(e.body.prBody)])

handler == handlerOn(Envelopes)

RejectSwallowed ==
  /\ pc' = "post"
  /\ UNCHANGED <<files, res>>

\* the rejection handlers: the chain ends in .catch(err => callback(err))
Reject ==
  /\ pc' = "catch"
  /\ UNCHANGED <<files, res>>

\* gitHubAuthenticate, lines 26-53, after Promise.resolve(privateKey)
gitHubAuthenticate ==
  /\ rev = "status"
  /\ pc = "authenticate"
  /\ UNCHANGED <<rev, privateKey, event, locals, callbacks>>
  /\ IF privateKey = "rejected"
       THEN Reject /\ UNCHANGED calls
       ELSE LET create == Call("createInstallationToken", NoRef, "", Undefined, 0)
            IN \/ /\ calls' = Append(calls, Rejected(create))
                  /\ Reject
               \/ /\ calls' = Append(calls, create)
                  /\ pc' = IF locals.checking = Skip THEN "skip" ELSE "compare"
                  /\ UNCHANGED <<files, res>>

\* handler, lines 153-159: the skip branch
skipVersionCheck ==
  /\ rev = "status"
  /\ pc = "skip"
  /\ pc' = "post"
  /\ res' = [NoRes EXCEPT !.state = "success", !.description = MsgSkipped]
  /\ UNCHANGED <<rev, privateKey, event, locals, files, calls, callbacks>>

DescriptionOldFirst(isNewer, newVersion, oldVersion, releaseType) ==
  IF isNewer
    THEN <<"Version ">> \o oldVersion \o <<" will replace ">> \o newVersion
    ELSE <<"Version ">> \o oldVersion \o <<" requires a ">> \o releaseType
           \o <<" version number greater than ">> \o newVersion

\* the description of compareVersionsFromGitHub
Description(isNewer, newVersion, oldVersion, releaseType) ==
  IF isNewer
    THEN <<"Version ">> \o newVersion \o <<" will replace ">> \o oldVersion
    ELSE <<"Version ">> \o newVersion \o <<" requires a ">> \o releaseType
           \o <<" version number greater than ">> \o oldVersion

\* the .then of lines 68-80 throws: JSON.parse or semver.gte
compareThrows(baseFile, headFile, releaseType) ==
  \/ ~baseFile.json
  \/ ~headFile.json
  \/ semverGteThrows(headFile.version, semverInc(baseFile.version, releaseType))

\* const isNewer = semver.gte(newVersion, semver.inc(oldVersion, releaseType))
isNewer(oldVersion, newVersion, releaseType) ==
  semverGte(newVersion, semverInc(oldVersion, releaseType))

\* compareVersionsFromGitHub, lines 55-84: both fetches are issued, then
\* Promise.all waits for them
compareVersionsFromGitHub ==
  /\ rev = "status"
  /\ pc = "compare"
  /\ UNCHANGED <<rev, privateKey, event, callbacks>>
  \* lines 56-65: one getContentParams object, its ref assigned anew
  \* between the two calls
  /\ locals' = [locals EXCEPT !.params = <<locals.headSha>>]
  /\ LET getBase == With(Call("getContent", locals.baseRef, "", Undefined, 0), 1)
         getHead == With(Call("getContent", locals.headSha, "", Undefined, 0), 1)
     IN
     \/ /\ \E issued \in {<<Rejected(getBase), getHead>>,
                           <<getBase, Rejected(getHead)>>,
                           <<Rejected(getBase), Rejected(getHead)>>} :
             calls' = calls \o issued
        /\ Reject
     \/ \E baseAt \in RefsRead(getBase, locals'.params), headFile \in Manifests :
        \E baseFile \in IF baseAt = locals.headSha THEN {headFile} ELSE Manifests :
          /\ calls' = calls \o <<getBase, getHead>>
          /\ files' = [base |-> baseFile, head |-> headFile,
                       baseAt |-> baseAt, headAt |-> locals.headSha]
          /\ IF compareThrows(baseFile, headFile, locals.checking)
               THEN pc' = "catch" /\ UNCHANGED res
               ELSE LET newer == isNewer(baseFile.version, headFile.version,
                                         locals.checking)
                    IN /\ pc' = "post"
                       /\ res' = [NoRes EXCEPT
                            !.success = IF newer THEN "true" ELSE "false",
                            !.description = Description(newer, headFile.version,
                                              baseFile.version, locals.checking)]

statusStateFromSuccess(r) == IF r.success = "true" THEN "success" ELSE "failure"

\* state: success ? 'success' : 'failure' with success bound to res.state
statusState(r) == IF r.state # "undefined" THEN "success" ELSE "failure"

\* postStatus, lines 86-98, and the .then of line 167
postStatus ==
  /\ rev = "status"
  /\ pc = "post"
  /\ UNCHANGED <<rev, privateKey, event, locals, files, res>>
  /\ LET create == Call("createStatus", locals.headSha, statusState(res),
                        res.description, 0)
     IN \/ /\ calls' = Append(calls, Rejected(create))
           /\ pc' = "catch"
           /\ UNCHANGED callbacks
        \/ /\ calls' = Append(calls, create)
           /\ pc' = "done"
           /\ callbacks' = Append(callbacks, createResponse(200, res.description))

\* line 168: .catch(err => callback(err))
catchError ==
  /\ rev = "status"
  /\ pc = "catch"
  /\ pc' = "done"
  /\ callbacks' = Append(callbacks, errorResult)
  /\ UNCHANGED <<rev, privateKey, event, locals, files, res, calls>>

(***************************************************************************)
(* src/unnamed/part_006, lines 126-329                                     *)
(***************************************************************************)
\* the payload's pull request: base.ref and number
PullRequestBaseRef == BaseRef(0)
PullRequestNumber == 123

\* the two head revisions a check_run payload names: check_run.head_sha
\* and check_run.check_suite.head_sha
CheckRunHeadSha == <<"check_run.head_sha", 0>>
CheckRunSuiteHeadSha == <<"check_run.check_suite.head_sha", 0>>

FromCheckSuiteLastEntry(prs) ==
  IF Len(prs) > 0
    THEN [NoLocals EXCEPT !.headSha = HeadSha, !.baseRef = prs[Len(prs)].baseRef,
                          !.number = prs[Len(prs)].number]
    ELSE [NoLocals EXCEPT !.headSha = HeadSha]

\* lines 296-300: check_suite.head_sha and the first entry of
\* check_suite.pull_requests
FromCheckSuite(prs) ==
  IF Len(prs) > 0
    THEN [NoLocals EXCEPT !.headSha = HeadSha, !.baseRef = prs[1].baseRef,
                          !.number = prs[1].number]
    ELSE [NoLocals EXCEPT !.headSha = HeadSha]

FromCheckRunWithoutNumber(prs) ==
  IF Len(prs) > 0
    THEN [NoLocals EXCEPT !.headSha = CheckRunHeadSha, !.baseRef = prs[1].baseRef]
    ELSE [NoLocals EXCEPT !.headSha = CheckRunHeadSha]

\* lines 302-306: check_run.head_sha and the first entry of
\* check_run.check_suite.pull_requests
FromCheckRun(prs) ==
  IF Len(prs) > 0
    THEN [NoLocals EXCEPT !.headSha = CheckRunHeadSha, !.baseRef = prs[1].baseRef,
                          !.number = prs[1].number]
    ELSE [NoLocals EXCEPT !.headSha = CheckRunHeadSha]

\* lines 294-315: the branch of the dispatch the event takes
classifyWithSynchronize(githubEvent, action) ==
  IF githubEvent = "check_suite" /\ action \in {"requested", "rerequested"}
    THEN "check_suite"
  ELSE IF githubEvent = "check_run" /\ action = "rerequested" THEN "check_run"
  ELSE IF githubEvent = "pull_request"
          /\ action \in {"opened", "reopened", "synchronize"}
    THEN "pull_request"
  ELSE "none"

classify(githubEvent, action) ==
  IF githubEvent = "check_suite" /\ action \in {"requested", "rerequested"}
    THEN "check_suite"
  ELSE IF githubEvent = "check_run" /\ action = "rerequested" THEN "check_run"
  ELSE IF githubEvent = "pull_request" /\ action \in {"opened", "reopened"}
    THEN "pull_request"
  ELSE "none"

\* handler, lines 277-319
handlerChecksOn(envelopes) ==
  /\ rev = "checks"
  /\ pc = "idle"
  /\ \E e \in envelopes :
     LET h == headers(e) IN
     IF headerCheck(h) # HeadersPresent THEN Answer(e, 400, headerCheck(h))
     ELSE IF validateSignatureThrows(e.body, h.sig)
       THEN Throw(e, "thrown:timingSafeEqual")
     ELSE IF ~validateSignature(e.body, h.sig) THEN Answer(e, 400, MsgInvalidSig)
     ELSE IF ~e.body.json THEN Throw(e, "thrown:JSON.parse")
     ELSE IF classify(h.ghEvent, e.body.action) = "check_suite"
       THEN IF e.body.kind # "check_suite" THEN Throw(e, "thrown:TypeError")
            ELSE Proceed(e, FromCheckSuite(e.body.prs))
     ELSE IF classify(h.ghEvent, e.body.action) = "check_run"
       THEN IF e.body.kind # "check_run" THEN Throw(e, "thrown:TypeError")
            ELSE Proceed(e, FromCheckRun(e.body.prs))
     ELSE IF classify(h.ghEvent, e.body.action) = "pull_request"
       THEN IF e.body.kind # "pull_request" THEN Throw(e, "thrown:TypeError")
            ELSE Proceed(e, [NoLocals EXCEPT !.headSha = HeadSha,
                                             !.baseRef = PullRequestBaseRef,
                                             !.number = PullRequestNumber,
                                             !.body = e.body.prBody])
     ELSE Answer(e, 202, MsgNoAction)

handlerChecks == handlerChecksOn(Envelopes)

\* line 322: await privateKey, gitHubAuthenticate (lines 150-174)
gitHubAuthenticateChecks ==
  /\ rev = "checks"
  /\ pc = "authenticate"
  /\ UNCHANGED <<rev, privateKey, event, locals, files, res, callbacks>>
  /\ IF privateKey = "rejected"
       THEN pc' = "catch" /\ UNCHANGED calls
       ELSE LET create == Call("createInstallationToken", NoRef, "", Undefined, 0)
            IN \/ calls' = Append(calls, Rejected(create)) /\ pc' = "catch"
               \/ calls' = Append(calls, create) /\ pc' = "compare"

\* String.prototype.indexOf: the 0-based position of the first occurrence
\* of lit in text, -1 when there is none
indexOf(text, lit) ==
  LET hits == {p \in 1..(Len(text) - Len(lit) + 1) :
                 SubSeq(text, p, p + Len(lit) - 1) = lit}
  IN IF hits = {} THEN -1
     ELSE (CHOOSE p \in hits : \A q \in hits : p <= q) - 1

\* String.prototype.substring(0, end): a negative end counts as 0
substring(text, end) == SubSeq(text, 1, IF end < 0 THEN 0 ELSE end)

\* lines 211-213: the 1-based line of the first '"version"' in the text
lineNumberOf(headFile) ==
  Len(Split(substring(headFile.text, indexOf(headFile.text, VersionKey)), "\n"))

needsPullRequestWhenFalsy(body) == IsFalsy(body)

\* line 194: if (body === undefined)
needsPullRequest(body) == body = Undefined

\* compareVersionsFromGitHub, lines 176-226: the awaits are sequential, a
\* rejected one ends the function
compareVersionsFromGitHubChecks ==
  /\ rev = "checks"
  /\ pc = "compare"
  /\ UNCHANGED <<rev, privateKey, event, callbacks>>
  /\ LET getBase == With(Call("getContent", locals.baseRef, "", Undefined, 0), 1)
         getHead == With(Call("getContent", locals.headSha, "", Undefined, 0), 2)
         \* lines 181-189: getBaseContentParams and a copy of it with the
         \* head ref
         objects == <<locals.baseRef, locals.headSha>>
         getPR == Call("pullRequests.get", NoRef, "", Undefined, locals.number)
         fetchPR == needsPullRequest(locals.body)
         fetched == IF fetchPR THEN <<getBase, getHead, getPR>>
                    ELSE <<getBase, getHead>>
     IN IF locals.baseRef = NoRef
          THEN /\ pc' = "post"
               /\ res' = NoRes
               /\ UNCHANGED <<locals, files, calls>>
          ELSE \/ /\ pc' = "catch"
                  /\ \E k \in 1..Len(fetched) :
                       calls' = calls \o SubSeq(fetched, 1, k - 1)
                                      \o <<Rejected(fetched[k])>>
                  /\ locals' = [locals EXCEPT !.params = objects]
                  /\ UNCHANGED <<files, res>>
               \/ \E body \in IF fetchPR THEN Descriptions ELSE {locals.body} :
                    LET releaseType == releaseTypeOf(body)
                    IN \E baseAt \in RefsRead(getBase, objects),
                          baseFile \in Manifests, headFile \in Manifests :
                       /\ calls' = calls \o fetched
                       /\ locals' = [locals EXCEPT !.body = body,
                                      !.checking = releaseType, !.params = objects]
                       /\ files' = [base |-> baseFile, head |-> headFile,
                                    baseAt |-> baseAt, headAt |-> locals.headSha]
                       /\ IF compareThrows(baseFile, headFile, releaseType)
                            THEN pc' = "catch" /\ UNCHANGED res
                            ELSE LET newer == isNewer(baseFile.version,
                                                headFile.version, releaseType)
                                 IN /\ pc' = "post"
                                    /\ res' = [NoRes EXCEPT
                                         !.success = IF newer THEN "true" ELSE "false",
                                         !.description = Description(newer,
                                            headFile.version, baseFile.version,
                                            releaseType),
                                         !.lineNumber = lineNumberOf(headFile)]

conclusionOfVerdict(baseRef, r) ==
  IF r.success = "true" THEN "success" ELSE "failure"

\* updateCheck, lines 228-265: conclusion and summary
conclusionOf(baseRef, r) ==
  IF baseRef = NoRef THEN "neutral"
  ELSE IF r.success = "true" THEN "success" ELSE "failure"
summaryOfDescription(baseRef, r) == r.description

summaryOf(baseRef, r) == IF baseRef = NoRef THEN MsgNoPR ELSE r.description

\* updateCheck and the callback of line 325
updateCheck ==
  /\ rev = "checks"
  /\ pc = "post"
  /\ UNCHANGED <<rev, privateKey, event, locals, files, res>>
  /\ LET create ==
           Call("checks.create", locals.headSha, conclusionOf(locals.baseRef, res),
                summaryOf(locals.baseRef, res),
                IF locals.baseRef # NoRef /\ res.success # "true"
                  THEN res.lineNumber ELSE 0)
     IN \/ /\ calls' = Append(calls, Rejected(create))
           /\ pc' = "catch"
           /\ UNCHANGED callbacks
        \/ /\ calls' = Append(calls, create)
           /\ pc' = "done"
           /\ callbacks' = Append(callbacks,
                createResponse(IF locals.baseRef # NoRef THEN 200 ELSE 202,
                               summaryOf(locals.baseRef, res)))

\* lines 326-328: catch (e) { return callback(e); }
catchChecks ==
  /\ rev = "checks"
  /\ pc = "catch"
  /\ pc' = "done"
  /\ callbacks' = Append(callbacks, errorResult)
  /\ UNCHANGED <<rev, privateKey, event, locals, files, res, calls>>

(***************************************************************************)
(* The process                                                             *)
(***************************************************************************)
\* the Lambda container takes the next delivery: every per-invocation
\* object is created afresh, the module-level key promise is kept
nextInvocation ==
  /\ pc \in {"done"} \cup Thrown
  /\ pc' = "idle"
  /\ event' = NoEvent
  /\ locals' = NoLocals
  /\ files' = NoFiles
  /\ res' = NoRes
  /\ calls' = <<>>
  /\ callbacks' = <<>>
  /\ UNCHANGED <<rev, privateKey>>

Next ==
  \/ handler
  \/ gitHubAuthenticate
  \/ skipVersionCheck
  \/ compareVersionsFromGitHub
  \/ postStatus
  \/ catchError
  \/ handlerChecks
  \/ gitHubAuthenticateChecks
  \/ compareVersionsFromGitHubChecks
  \/ updateCheck
  \/ catchChecks
  \/ nextInvocation

Spec == Init /\ [][Next]_vars

\* the same process when the deliveries spell the header names in either
\* case
handlerAnyCase == handlerOn(EnvelopesAnyCase)
handlerChecksAnyCase == handlerChecksOn(EnvelopesAnyCase)

AnyCaseNext ==
  \/ handlerAnyCase
  \/ gitHubAuthenticate
  \/ skipVersionCheck
  \/ compareVersionsFromGitHub
  \/ postStatus
  \/ catchError
  \/ handlerChecksAnyCase
  \/ gitHubAuthenticateChecks
  \/ compareVersionsFromGitHubChecks
  \/ updateCheck
  \/ catchChecks
  \/ nextInvocation

AnyCaseSpec == Init /\ [][AnyCaseNext]_vars

(***************************************************************************)
(* The policy extraction as a function of the description                  *)
(***************************************************************************)
\* lines a description is made of at most
MaxLines == 2

\* '#version', an optional joiner, 'check', an optional 'e', 'r'
MarkerText(joiner, e) ==
  <<"#", "v", "e", "r", "s", "i", "o", "n">> \o joiner
    \o <<"c", "h", "e", "c", "k">> \o e \o <<"r">>

\* the lines of the descriptions: directives for each keyword, directives
\* with another word, the spellings of the marker, of the colon and of the
\* case, a marker inside a sentence, a marker without '#', and prose
PolicyLines ==
  {MarkerText(<<"-">>, <<>>) \o <<":", " ">> \o word :
     word \in {Major, Minor, Patch, Skip, <<"o", "f", "f">>, <<"m", "a", "j", "o", "r", "i", "t", "y">>, <<"p", "a", "t", "c", "h", "w", "o", "r", "k">>}}
    \cup {MarkerText(<<" ">>, <<"e">>) \o <<":", " ">> \o Minor,
          MarkerText(<<>>, <<>>) \o <<":">> \o Major,
          <<"#", "V", "E", "R", "S", "I", "O", "N", "-", "C", "H", "E", "C", "K", "R", ":", " ", "M", "A", "J", "O", "R">>,
          MarkerText(<<"-">>, <<>>) \o <<" ", ":", " ">> \o Major,
          <<"s", "e", "e", " ">> \o MarkerText(<<"-">>, <<>>) \o <<":", " ">> \o Major,
          Tail(MarkerText(<<"-">>, <<>>)) \o <<":", " ">> \o Major,
          <<"f", "i", "x">>}

\* the descriptions of n lines
RECURSIVE TextsOf(_)
TextsOf(n) ==
  IF n = 1 THEN PolicyLines
  ELSE {t \o <<"\n">> \o l : t \in TextsOf(n - 1), l \in PolicyLines}

PolicyTexts == {NoBody, <<>>} \cup UNION {TextsOf(n) : n \in 1..MaxLines}

\* a handler that has read the description of its pull request
PolicyInit ==
  /\ rev \in {"status", "checks"}
  /\ privateKey = "resolved"
  /\ pc = "idle"
  /\ event = NoEvent
  /\ \E body \in PolicyTexts : locals = [NoLocals EXCEPT !.body = body]
  /\ files = NoFiles
  /\ res = NoRes
  /\ calls = <<>>
  /\ callbacks = <<>>

\* versioncheckr.js, lines 139-148
extractChecking ==
  /\ rev = "status"
  /\ pc = "idle"
  /\ pc' = "extracted"
  /\ locals' = [locals EXCEPT !.checking = checkingOf(locals.body)]
  /\ UNCHANGED <<rev, privateKey, event, files, res, calls, callbacks>>

\* part_006, lines 203-209
extractReleaseType ==
  /\ rev = "checks"
  /\ pc = "idle"
  /\ pc' = "extracted"
  /\ locals' = [locals EXCEPT !.checking = releaseTypeOf(locals.body)]
  /\ UNCHANGED <<rev, privateKey, event, files, res, calls, callbacks>>

PolicyNext ==
  \/ extractChecking
  \/ extractReleaseType

PolicySpec == PolicyInit /\ [][PolicyNext]_vars

(***************************************************************************)
(* Vocabulary of the properties                                            *)
(***************************************************************************)
\* the integer components a well-formed version text stands for
Decode(v) ==
  LET parts == Split(v, ".")
  IN <<ParseNat(parts[1]), ParseNat(parts[2]), ParseNat(parts[3])>>

\* bump the named component, reset the lower-order ones
Increment(t, policy) ==
  IF policy = Major THEN <<t[1] + 1, 0, 0>>
  ELSE IF policy = Minor THEN <<t[1], t[2] + 1, 0>>
  ELSE <<t[1], t[2], t[3] + 1>>

\* tuple-lexicographic order on integer components
TupleGeq(a, b) ==
  \/ a[1] > b[1]
  \/ a[1] = b[1] /\ a[2] > b[2]
  \/ a[1] = b[1] /\ a[2] = b[2] /\ a[3] >= b[3]

\* the comparison has produced a verdict in this invocation
Compared == res.success # "undefined"
OldTriple == Decode(files.base.version)
NewTriple == Decode(files.head.version)
Satisfied == TupleGeq(NewTriple, Increment(OldTriple, locals.checking))

\* number of calls of one collaborator in this invocation
Count(api) == Cardinality({k \in 1..Len(calls) : calls[k].api = api})
Published == {k \in 1..Len(calls) : calls[k].api \in {"createStatus", "checks.create"}}

\* the handler has taken the envelope of this invocation
Taken == pc # "idle"
HeadersGiven == Taken /\ event.ghEvent # "" /\ event.sig.present
\* the header is 'sha1=' followed by the whole digest of the body under the secret
HeaderIsDigestOfBody ==
  /\ event.sig.prefix = "sha1="
  /\ event.sig.hex = HexLen
  /\ event.sig.digest.key = WEBHOOK_SECRET
  /\ event.sig.digest.msg = event.body
AnsweredWith(statusCode, msg) == callbacks = <<createResponse(statusCode, msg)>>
Ended == pc \in {"done"} \cup Thrown

(***************************************************************************)
(* Properties                                                              *)
(***************************************************************************)

\* C1: for well-formed three-component versions and a policy among patch,
\* minor and major, the comparison reports satisfied exactly when
\* new >= increment(old, policy) in tuple-lexicographic order on the integer
\* components; an equal or lower head version is never satisfied and a bump
\* that leaves the major component never satisfies major.
C1_SatisfiedIffAtLeastIncrement ==
  Compared =>
    /\ locals.checking \in {Patch, Minor, Major}
    /\ (res.success = "true") <=> Satisfied
    /\ TupleGeq(OldTriple, NewTriple) => res.success = "false"
    /\ (locals.checking = Major /\ NewTriple[1] = OldTriple[1])
         => res.success = "false"

C1_Witness ==
  /\ Compared
  /\ locals.checking = Major
  /\ files.base.version = V(1, 0, 0)
  /\ files.head.version = V(1, 1, 0)
  /\ res.success = "false"

\* C2: whenever an event with pull-request context is processed under a
\* policy other than skip, the published verdict is 'success' exactly when
\* the comparison is satisfied and 'failure' otherwise.
C2_VerdictIsComparison ==
  \A k \in Published :
    (locals.checking # Skip /\ locals.baseRef # NoRef) =>
      calls[k].state = (IF Satisfied THEN "success" ELSE "failure")

\* C3: the signature check accepts exactly when the header is 'sha1='
\* followed by the hex HMAC-SHA1 of the request body under the webhook
\* secret; a digest of another body or under another secret is answered
\* 400 'Invalid X-Hub-Signature'.
C3_AcceptsIffDigestOfBody ==
  HeadersGiven =>
    /\ HeaderIsDigestOfBody <=>
         (~AnsweredWith(400, MsgInvalidSig) /\ pc # "thrown:timingSafeEqual")
    /\ (/\ event.sig.prefix = "sha1="
        /\ event.sig.hex = HexLen
        /\ event.sig.digest # Hmac(WEBHOOK_SECRET, event.body))
         => AnsweredWith(400, MsgInvalidSig)

C3_Witness ==
  /\ HeadersGiven
  /\ event.sig = SigValue("sha1=", Hmac(OtherSecret, event.body), HexLen)
  /\ event.body = FooBar
  /\ AnsweredWith(400, MsgInvalidSig)

\* C4: signature verification never throws: every header value that is not
\* the signature of the body, whatever its prefix or length, is rejected and
\* answered 400 'Invalid X-Hub-Signature'.
C4_RejectsWithoutThrowing ==
  /\ pc # "thrown:timingSafeEqual"
  /\ (HeadersGiven /\ ~HeaderIsDigestOfBody) => AnsweredWith(400, MsgInvalidSig)

\* C6: every invocation invokes the callback exactly once, with a response
\* or with an error.
C6_CallbackExactlyOnce ==
  /\ Len(callbacks) <= 1
  /\ Ended => Len(callbacks) = 1

\* C7: whenever the response is a 400, no external collaborator call has
\* been made in the invocation.
C7_NoCallBefore400 ==
  \A k \in 1..Len(callbacks) :
    (~callbacks[k].err /\ callbacks[k].statusCode = 400) => calls = <<>>

C7_Witness ==
  /\ pc = "done"
  /\ AnsweredWith(400, MsgMissingSig)
  /\ event.ghEvent = "pull_request"
  /\ calls = <<>>

\* C8: without the X-GitHub-Event header the answer is 400 'Missing
\* X-GitHub-Event', also when the signature header is missing too; with it
\* but without X-Hub-Signature the answer is 400 'Missing X-Hub-Signature'.
C8_MissingHeaders ==
  Taken =>
    /\ event.ghEvent = "" => AnsweredWith(400, MsgMissingEvent)
    /\ (event.ghEvent # "" /\ ~event.sig.present)
         => AnsweredWith(400, MsgMissingSig)

C8_Witness ==
  /\ Taken
  /\ event.ghEvent = ""
  /\ ~event.sig.present
  /\ AnsweredWith(400, MsgMissingEvent)

\* the rows of the dispatch table of the Checks revision
InDispatchTable(githubEvent, action) ==
  \/ githubEvent = "pull_request" /\ action \in {"opened", "reopened"}
  \/ githubEvent = "check_suite" /\ action \in {"requested", "rerequested"}
  \/ githubEvent = "check_run" /\ action = "rerequested"
\* the events the Commit Status revision processes
InStatusTable(githubEvent, action) ==
  /\ githubEvent = "pull_request"
  /\ action \in {"opened", "reopened", "synchronize", "edited"}

SignedJson == HeadersGiven /\ HeaderIsDigestOfBody /\ event.body.json

\* C9 as stated: after a valid signature every (event type, action) outside
\* the dispatch table is answered 202 'No action to take' and triggers no
\* external call.
C9_OutsideTableNoAction ==
  (SignedJson /\ ~InDispatchTable(event.ghEvent, event.body.action)) =>
    AnsweredWith(202, MsgNoAction) /\ calls = <<>>

\* C9 amended: the Checks revision answers 202 'No action to take', without
\* any external call, for every combination outside the dispatch table; the
\* Commit Status revision does so for every combination other than
\* pull_request with opened, reopened, synchronize or edited.
C9_OutsideOwnTableNoAction ==
  (/\ SignedJson
   /\ IF rev = "checks"
        THEN ~InDispatchTable(event.ghEvent, event.body.action)
        ELSE ~InStatusTable(event.ghEvent, event.body.action)) =>
    AnsweredWith(202, MsgNoAction) /\ calls = <<>>

C9_Witness ==
  /\ rev = "checks"
  /\ SignedJson
  /\ event.ghEvent = "pull_request"
  /\ event.body.action = "synchronize"
  /\ AnsweredWith(202, MsgNoAction)
  /\ calls = <<>>

SignedPullRequest ==
  /\ SignedJson
  /\ event.ghEvent = "pull_request"
  /\ event.body.kind = "pull_request"
  /\ event.body.action \in {"opened", "reopened", "synchronize", "edited"}

\* C10 as stated, read for the Commit Status revision and for invocations
\* that end with a response: a correctly signed pull_request event whose
\* action is opened, reopened, synchronize or edited ends with one
\* authentication, exactly two manifest fetches, exactly one published
\* status and a 200.
C10_ProcessedWithTwoFetches ==
  (/\ rev = "status"
   /\ pc = "done"
   /\ SignedPullRequest
   /\ Len(callbacks) = 1
   /\ ~callbacks[1].err) =>
    /\ Count("createInstallationToken") = 1
    /\ Count("getContent") = 2
    /\ Count("createStatus") = 1
    /\ callbacks[1].statusCode = 200

\* C10 amended: in the Commit Status revision such an event is never
\* answered 202 or 400; the handler authenticates once the private key is
\* available, and unless the invocation ends with an error on the callback
\* (a collaborator failed or a manifest was malformed) it publishes exactly
\* one status and answers 200, having fetched the manifest exactly twice,
\* or not at all when the description selects skip.
C10_ProcessedUnlessError ==
  (rev = "status" /\ Taken /\ SignedPullRequest) =>
    /\ pc \notin Thrown
    /\ (privateKey = "resolved" /\ pc # "authenticate")
         => Count("createInstallationToken") = 1
    /\ pc = "done" =>
         /\ Len(callbacks) = 1
         /\ \/ callbacks[1].err
            \/ /\ callbacks[1].statusCode = 200
               /\ Count("createStatus") = 1
               /\ Count("getContent") = (IF locals.checking = Skip THEN 0 ELSE 2)

C10_Witness ==
  /\ rev = "status"
  /\ SignedPullRequest
  /\ event.body.action = "edited"
  /\ pc = "done"
  /\ Count("getContent") = 2
  /\ Count("createStatus") = 1
  /\ callbacks[1].statusCode = 200

\* a correctly signed check_suite or check_run event of the dispatch table
\* whose pull_requests list is empty, delivered to the Checks revision
SignedCheckWithoutPR ==
  /\ rev = "checks"
  /\ SignedJson
  /\ event.ghEvent \in {"check_suite", "check_run"}
  /\ event.body.kind = event.ghEvent
  /\ InDispatchTable(event.ghEvent, event.body.action)
  /\ event.body.prs = <<>>

WillReplace ==
  <<"Version ">> \o files.head.version \o <<" will replace ">>
    \o files.base.version
RequiresGreater ==
  <<"Version ">> \o files.head.version \o <<" requires a ">> \o locals.checking
    \o <<" version number greater than ">> \o files.base.version

SkipSelected ==
  /\ rev = "status"
  /\ SignedPullRequest
  /\ event.body.prBody = DirectiveLine(Skip)

\* C18: when the description's directive selects skip, neither manifest is
\* fetched or parsed, exactly one status is published, with state success,
\* and the response is 200 'Skipped the version check'.
C18_SkipPublishesSuccessWithoutFetch ==
  (Taken /\ SkipSelected) =>
    /\ locals.checking = Skip
    /\ Count("getContent") = 0
    /\ files = NoFiles
    /\ Count("createStatus") <= 1
    /\ \A k \in Published :
         calls[k].state = "success" /\ calls[k].description = MsgSkipped
    /\ \A k \in 1..Len(callbacks) :
         ~callbacks[k].err =>
           /\ callbacks[k] = createResponse(200, MsgSkipped)
           /\ Count("createStatus") = 1
    /\ pc = "done" => Len(callbacks) = 1

C18_Witness ==
  /\ SkipSelected
  /\ pc = "done"
  /\ AnsweredWith(200, MsgSkipped)
  /\ Count("createStatus") = 1
  /\ Count("getContent") = 0
  /\ files = NoFiles

\* a version text of three dot-separated decimal numbers without leading
\* zeros
WellFormedVersion(v) ==
  LET parts == Split(v, ".")
  IN /\ Len(parts) = 3
     /\ \A k \in 1..3 :
          /\ parts[k] # <<>>
          /\ \A j \in 1..Len(parts[k]) : IsDigit(parts[k][j])
          /\ (Len(parts[k]) > 1 => parts[k][1] # "0")

\* the manifest is not JSON, has no version field (its version is then
\* undefined), or has a version that is not well-formed
Unusable(file) == ~file.json \/ ~WellFormedVersion(file.version)

\* both manifests have been asked for and one of them is unusable
UnusableManifest ==
  /\ Count("getContent") = 2
  /\ Unusable(files.base) \/ Unusable(files.head)

\* C19: if either manifest cannot be parsed, lacks a version field, or
\* carries a version that is not a well-formed three-component version,
\* the invocation ends with an error on the callback, without a response,
\* and no status or check is published.
C19_UnusableManifestEndsInError ==
  UnusableManifest =>
    /\ pc \in {"catch", "done"}
    /\ Published = {}
    /\ \A k \in 1..Len(callbacks) : callbacks[k].err
    /\ pc = "done" => callbacks = <<errorResult>>

C19_Witness ==
  /\ rev = "checks"
  /\ pc = "done"
  /\ files.base.json /\ files.head.json
  /\ files.base.version = V(1, 0, 0)
  /\ files.head.version = <<"1", ".", "0">>
  /\ Count("getContent") = 2
  /\ callbacks = <<errorResult>>
  /\ Published = {}

\* the stage of a collaborator: authentication, fetch, publication
Stage(api) ==
  IF api = "createInstallationToken" THEN 1
  ELSE IF api \in {"getContent", "pullRequests.get"} THEN 2
  ELSE 3

\* the calls of the invocation so far are in the order of their stages,
\* with one authentication, made first, and at most one publication
InStageOrder ==
  /\ \A i, j \in 1..Len(calls) :
       i < j => Stage(calls[i].api) <= Stage(calls[j].api)
  /\ calls # <<>> => calls[1].api = "createInstallationToken"
  /\ Count("createInstallationToken") <= 1
  /\ Cardinality(Published) <= 1

\* after a rejected call no collaborator of a later stage is called and the
\* invocation ends with the error on the callback, without a response
FailureEndsInvocation ==
  \A k \in 1..Len(calls) :
    calls[k].rejected =>
      /\ \A j \in (k + 1)..Len(calls) : Stage(calls[j].api) = Stage(calls[k].api)
      /\ pc \in {"catch", "done"}
      /\ \A c \in 1..Len(callbacks) : callbacks[c].err
      /\ pc = "done" => callbacks = <<errorResult>>

\* the step that follows a rejection: the error goes to the callback and
\* no collaborator is called
RejectionStep ==
  pc = "catch" =>
    /\ pc' = "done"
    /\ calls' = calls
    /\ callbacks' = <<errorResult>>

\* C20: the external collaborators are invoked in the order authentication,
\* content fetch, result publication; when one of them fails, none of the
\* later ones is invoked and the invocation ends with an error on the
\* callback instead of a response.
C20_CollaboratorsInOrder ==
  /\ [](InStageOrder /\ FailureEndsInvocation)
  /\ [][RejectionStep]_vars

C20_Witness ==
  /\ rev = "checks"
  /\ pc = "done"
  /\ Len(calls) = 2
  /\ calls[1].api = "createInstallationToken" /\ ~calls[1].rejected
  /\ calls[2].api = "getContent" /\ calls[2].rejected
  /\ callbacks = <<errorResult>>

(***************************************************************************)
(* Properties of the policy extraction                                     *)
(***************************************************************************)
\* the policy of the description has been extracted
Extracted == pc = "extracted"

\* the lines of the description; none when there is no description
DescriptionLines ==
  IF locals.body = NoBody THEN <<>> ELSE Split(locals.body, "\n")

\* the spellings of the marker: words joined by a hyphen, a space or
\* nothing, 'checkr' or 'checker'
MarkerSpellings ==
  {MarkerText(joiner, e) : joiner \in {<<"-">>, <<" ">>, <<>>},
                           e \in {<<>>, <<"e">>}}

\* line begins with lit, whatever the case of its letters
Begins(line, lit) ==
  /\ Len(line) >= Len(lit)
  /\ toLowerCase(SubSeq(line, 1, Len(lit))) = lit

StartsWithMarker(line) == \E m \in MarkerSpellings : Begins(line, m)

\* the marker is on the line after some other character, or without its '#'
MarkerMisplaced(line) ==
  \E m \in MarkerSpellings :
    \/ \E p \in 2..Len(line) : Begins(SubSeq(line, p, Len(line)), m)
    \/ Begins(line, Tail(m))

\* the keywords each revision recognises
Keywords ==
  IF rev = "status" THEN {Skip, Major, Minor, Patch} ELSE {Major, Minor, Patch}

\* line is a directive for keyword: a marker, the colon written as one of
\* colons, the keyword as a whole word
DirectiveWith(line, colons, keyword) ==
  \E m \in MarkerSpellings, c \in colons :
    LET d == m \o c \o keyword
    IN /\ Begins(line, d)
       /\ (Len(line) = Len(d) \/ ~IsLetter(line[Len(d) + 1]))

IsDirective(line, keyword) ==
  DirectiveWith(line, {<<":">>, <<":", " ">>}, keyword)

\* the lines that start with the marker, and the first of a set of lines
MarkerLines ==
  {i \in 1..Len(DescriptionLines) : StartsWithMarker(DescriptionLines[i])}
FirstOf(S) == CHOOSE i \in S : \A j \in S : i <= j

\* C13: the extracted policy is patch whenever the pull-request description
\* is absent, empty, or contains no directive line (no line that starts
\* with the marker).
C13_DefaultIsPatch ==
  (Extracted /\ (locals.body \in {NoBody, <<>>} \/ MarkerLines = {}))
    => locals.checking = Patch

C13_Witness ==
  /\ Extracted
  /\ locals.body = <<"f", "i", "x">>
  /\ locals.checking = Patch

\* C14: a marker preceded by another character on its line, or written
\* without the leading '#', never selects a policy; a marker at the start
\* of a line, the first line or a later one, is matched whatever the case
\* of marker and keyword and whether its words are joined by a hyphen, a
\* space or nothing.
C14_MarkerOnlyAtLineStart ==
  Extracted =>
    /\ (/\ MarkerLines = {}
        /\ \E i \in 1..Len(DescriptionLines) : MarkerMisplaced(DescriptionLines[i]))
         => locals.checking = Patch
    /\ MarkerLines # {} =>
         \A keyword \in Keywords :
           IsDirective(DescriptionLines[FirstOf(MarkerLines)], keyword)
             => locals.checking = keyword

C14_Witness ==
  /\ Extracted
  /\ locals.body = <<"f", "i", "x", "\n", "#", "V", "E", "R", "S", "I", "O", "N", "-", "C", "H", "E", "C", "K", "R", ":", " ", "M", "A", "J", "O", "R">>
  /\ locals.checking = Major

\* C15: a directive line is recognised both with and without a space
\* before the colon that follows the marker: '#version-checkr : major'
\* selects major as '#version-checkr: major' does.
C15_SpaceBeforeColon ==
  (Extracted /\ MarkerLines # {}) =>
    \A keyword \in Keywords :
      DirectiveWith(DescriptionLines[FirstOf(MarkerLines)],
                    {<<":">>, <<":", " ">>, <<" ", ":">>, <<" ", ":", " ">>},
                    keyword)
        => locals.checking = keyword

\* words that are no keyword of either revision
OtherWords == {<<"o", "f", "f">>, <<"m", "a", "j", "o", "r", "i", "t", "y">>, <<"p", "a", "t", "c", "h", "w", "o", "r", "k">>}
OtherWordLine(line) ==
  \E m \in MarkerSpellings, c \in {<<":">>, <<":", " ">>}, w \in OtherWords :
    toLowerCase(line) = m \o c \o w

\* C16: a marker followed by a word that is not exactly a recognized
\* keyword ('off', 'majority', 'patchwork') selects no policy: with no
\* other directive line in the description the policy is patch.
C16_OtherWordIsPatch ==
  (/\ Extracted
   /\ MarkerLines # {}
   /\ \A i \in MarkerLines : OtherWordLine(DescriptionLines[i]))
    => locals.checking = Patch

\* the lines that start with the marker followed by a recognized keyword
RecognizedLines ==
  {i \in 1..Len(DescriptionLines) :
     \E keyword \in Keywords : IsDirective(DescriptionLines[i], keyword)}

\* C17: when several lines carry a directive, the policy is the keyword of
\* the first line that starts with the marker followed by a recognized
\* keyword; later directives are ignored and earlier lines that do not
\* match, a marker line with an unrecognized keyword included, do not
\* change the result.
C17_FirstRecognizedLineWins ==
  (Extracted /\ RecognizedLines # {}) =>
    \A keyword \in Keywords :
      IsDirective(DescriptionLines[FirstOf(RecognizedLines)], keyword)
        => locals.checking = keyword

(***************************************************************************)
(* Properties of the envelope and of the classification                    *)
(***************************************************************************)
\* C21: the event-type and signature headers are found whatever the letter
\* case of their names: a request carrying them as 'x-github-event' and
\* 'x-hub-signature' is treated like one carrying 'X-GitHub-Event' and
\* 'X-Hub-Signature', so it is never answered that a header is missing.
C21_HeaderNamesAnyCase ==
  (Taken /\ event.lowerCase /\ event.ghEvent # "" /\ event.sig.present) =>
    /\ ~AnsweredWith(400, MsgMissingEvent)
    /\ ~AnsweredWith(400, MsgMissingSig)

\* C22: for any correctly signed payload, whatever its JSON shape (a check
\* event without its check_suite or check_run object, a pull_request event
\* without the pull_request object), classification does not throw, and a
\* shape that matches no row of the dispatch table is answered 202 'No
\* action to take'.
C22_ClassificationNeverThrows ==
  SignedJson =>
    /\ pc \notin Thrown
    /\ (IF rev = "checks"
          THEN ~InDispatchTable(event.ghEvent, event.body.action)
          ELSE ~InStatusTable(event.ghEvent, event.body.action))
         => AnsweredWith(202, MsgNoAction)

\* a correctly signed check event of the dispatch table with a non-empty
\* pull-request list that the Checks revision has taken
CheckWithPRs(githubEvent) ==
  /\ rev = "checks"
  /\ Taken
  /\ SignedJson
  /\ event.ghEvent = githubEvent
  /\ event.body.kind = githubEvent
  /\ InDispatchTable(event.ghEvent, event.body.action)
  /\ event.body.prs # <<>>

\* every fetch of the invocation asks for one of the refs, every
\* pull-request fetch for the number, every publication is for head
CallsUse(baseRef, head, number) ==
  \A k \in 1..Len(calls) :
    /\ calls[k].api = "getContent" => calls[k].ref \in {baseRef, head}
    /\ calls[k].api = "pullRequests.get" => calls[k].line = number
    /\ calls[k].api = "checks.create" => calls[k].ref = head

PolicyOfDescription(text) ==
  IF text = DirectiveLine(Major) THEN Major
  ELSE IF text = DirectiveLine(Minor) THEN Minor
  ELSE Patch

\* the pull-request fetches of the invocation
PullRequestFetches == {k \in 1..Len(calls) : calls[k].api = "pullRequests.get"}

\* C25: for a check_suite or check_run event with pull-request context the
\* pull-request description is fetched exactly once, by the number of the
\* first list entry, and the directive in the fetched text determines the
\* policy; for a pull_request event the description of the payload is used
\* and no pull-request fetch is made.
C25_DescriptionFetchedOnce ==
  /\ (CheckWithPRs("check_suite") \/ CheckWithPRs("check_run")) =>
       /\ Cardinality(PullRequestFetches) <= 1
       /\ \A k \in PullRequestFetches :
            /\ calls[k].line = event.body.prs[1].number
            /\ Count("getContent") = 2
       /\ (pc \in {"post", "done"} /\ \A c \in 1..Len(callbacks) : ~callbacks[c].err) =>
            /\ Cardinality(PullRequestFetches) = 1
            /\ locals.body \in Descriptions
            /\ locals.checking = PolicyOfDescription(locals.body)
  /\ (/\ rev = "checks"
      /\ Taken
      /\ SignedPullRequest
      /\ InDispatchTable(event.ghEvent, event.body.action)) =>
       /\ PullRequestFetches = {}
       /\ locals.body = event.body.prBody
       /\ Compared => locals.checking = PolicyOfDescription(event.body.prBody)

C25_Witness ==
  /\ CheckWithPRs("check_run")
  /\ pc = "done"
  /\ Cardinality(PullRequestFetches) = 1
  /\ locals.body = DirectiveLine(Minor)
  /\ locals.checking = Minor
  /\ res.success = "false"
  /\ AnsweredWith(200, RequiresGreater)

(***************************************************************************)
(* Properties of the line number, of isolation and of the fetches          *)
(***************************************************************************)
\* positions of the text where a "version" member begins: the key, plain or
\* with an escaped letter, followed by its colon
KeyPositions(text) ==
  {p \in 1..Len(text) :
     \E key \in {VersionKey, EscapedKey} :
       /\ p + Len(key) <= Len(text)
       /\ SubSeq(text, p, p + Len(key) - 1) = key
       /\ text[p + Len(key)] = ":"}

NewlinesBefore(text, p) == Cardinality({q \in 1..(p - 1) : text[q] = "\n"})

HeadFetched == rev = "checks" /\ files.head # NoManifest

\* C26: the reported line number is one plus the number of newline
\* characters before the first "version" key of the head manifest text; a
\* head manifest without the key makes the comparison fail, no default line
\* number is produced.
C26_LineOfVersionKey ==
  HeadFetched =>
    LET text == files.head.text
        keys == KeyPositions(text)
    IN IF keys = {} THEN ~Compared
       ELSE Compared =>
              \E p \in keys :
                /\ \A q \in keys : p <= q
                /\ res.lineNumber = 1 + NewlinesBefore(text, p)

\* what a delivery finds when the container takes it: the objects created
\* per invocation are fresh
FreshInvocation ==
  /\ pc = "idle"
  /\ event = NoEvent
  /\ locals = NoLocals
  /\ files = NoFiles
  /\ res = NoRes
  /\ calls = <<>>
  /\ callbacks = <<>>

\* C27: the outcome of an invocation depends only on its own envelope and
\* on what the collaborators return for it: when the process takes the next
\* delivery nothing that decides its outcome is left over from earlier
\* ones, neither a per-invocation object nor a failed key retrieval.
C27_InvocationsIndependent ==
  [][nextInvocation => (FreshInvocation /\ privateKey # "rejected")']_vars

\* C28: the signature is verified before the body is parsed and before the
\* event is classified: with both headers present and a header that is not
\* the signature of the body the answer is 400 'Invalid X-Hub-Signature'
\* whatever the event type, the action or the body, JSON or not; the body
\* is not parsed, nothing is extracted from it and no 202 or 200 is given.
C28_VerifiedBeforeParsing ==
  (HeadersGiven /\ ~HeaderIsDigestOfBody) =>
    /\ pc # "thrown:JSON.parse"
    /\ locals = NoLocals
    /\ \A c \in 1..Len(callbacks) :
         ~callbacks[c].err => callbacks[c].statusCode \notin {200, 202}
    /\ Ended => AnsweredWith(400, MsgInvalidSig)

GetContents == {k \in 1..Len(calls) : calls[k].api = "getContent"}

\* C29: the two manifest fetches are two requests with parameters of their
\* own, the first for the base revision and the second for the head
\* revision; issuing the second leaves the ref of the first as it was
\* issued; the old version is read from the base-revision content and the
\* new one from the head-revision content, and the versions are compared
\* only after both fetches have completed.
C29_FetchesKeepTheirRevisions ==
  /\ \A k \in GetContents :
       /\ calls[k].params \in 1..Len(locals.params) =>
            locals.params[calls[k].params] = calls[k].ref
       /\ \A j \in GetContents : j # k => calls[j].params # calls[k].params
  /\ \A j, k \in GetContents :
       j < k => calls[j].ref = locals.baseRef /\ calls[k].ref = locals.headSha
  /\ files # NoFiles =>
       files.baseAt = locals.baseRef /\ files.headAt = locals.headSha
  /\ Compared =>
       /\ files # NoFiles
       /\ Cardinality(GetContents) = 2
       /\ \A k \in GetContents : ~calls[k].rejected

ChecksCreated == {k \in 1..Len(calls) : calls[k].api = "checks.create"}
\* the head revision the payload of a check event names
HeadOfEvent ==
  IF event.ghEvent = "check_suite" THEN HeadSha ELSE CheckRunHeadSha

====
